---- MODULE Spec2Model ----
(***************************************************************************)
(* The recommendation core of BookRecommenderProject                      *)
(* (src/knn_recommender.py): generate_book_recommendations and softmax,   *)
(* called by the front end (src/app.py) against a rating matrix that is   *)
(* loaded once.                                                           *)
(*                                                                         *)
(* Numbers.  Ratings and the 0/1 preference vector are integers.  Every   *)
(* derived real (similarity, mean, deviation, predicted score, softmax    *)
(* score) is a fixed-point number with Scale units per 1.0, rounded down  *)
(* where the code's float64 rounds to nearest.  A missing rating (NaN) is *)
(* an absent entry: a matrix row is a function from the set of items the  *)
(* user rated to the ratings.  A pandas Series is a sequence of records   *)
(* [k |-> label, v |-> value] in index order.                             *)
(***************************************************************************)
EXTENDS Integers, Sequences, FiniteSets, TLC

\* Fixed-point units per 1.0.
Scale == 1000

\* top_n_similar_users ranges over 1..MaxTopN and num_recs over 0..MaxNumRecs.
MaxTopN == 2
MaxNumRecs == 2

\* The axes of the matrix, in the order pivot_table writes them; ISBNs are numbered
\* in their sort order, and UnknownIsbns are identifiers that are no column.
UserIndex == <<1, 2>>
ItemColumns == <<1, 2, 3>>
UnknownIsbns == {9}
LikedLengths == {0, 1, 2}
RatingValues == {1, 2}

Range(s) == {s[i] : i \in 1..Len(s)}

Min(a, b) == IF a <= b THEN a ELSE b

Max(a, b) == IF a >= b THEN a ELSE b

Abs(a) == IF a >= 0 THEN a ELSE -a

RECURSIVE SumV(_)
SumV(s) == IF s = <<>> THEN 0 ELSE Head(s).v + SumV(Tail(s))

RECURSIVE SetSum(_, _)
SetSum(f, S) ==
    IF S = {} THEN 0
    ELSE LET x == CHOOSE y \in S : TRUE IN f[x] + SetSum(f, S \ {x})

RECURSIVE SortedSeq(_)
SortedSeq(S) ==
    IF S = {} THEN <<>>
    ELSE LET m == CHOOSE x \in S : \A y \in S : x <= y
         IN <<m>> \o SortedSeq(S \ {m})

RECURSIVE ISqrtIn(_, _, _)
ISqrtIn(n, lo, hi) ==
    IF lo >= hi THEN lo
    ELSE LET mid == (lo + hi + 1) \div 2
         IN IF mid * mid <= n THEN ISqrtIn(n, mid, hi) ELSE ISqrtIn(n, lo, mid - 1)

\* floor(sqrt(n)) for n <= Scale * Scale (a cosine is at most 1.0)
ISqrt(n) == ISqrtIn(n, 0, Scale)

(***************************************************************************)
(* The inputs: rating matrices, metadata tables, liked lists.             *)
(***************************************************************************)
Rows == UNION {[S -> RatingValues] : S \in SUBSET Range(ItemColumns)}

RatingTables == [Range(UserIndex) -> Rows]

Frame(v) == [index |-> UserIndex, columns |-> ItemColumns, values |-> v]

\* ISBN 1 has title and author, ISBN 2 no author, ISBN 3 no entry at all.
MetadataTable ==
    [i \in {1, 2} |->
        IF i = 1 THEN [f \in {"Book-Title", "Book-Author"} |-> IF f = "Book-Title" THEN "T1" ELSE "A1"]
        ELSE [f \in {"Book-Title"} |-> "T2"]]

Isbns == Range(ItemColumns) \cup UnknownIsbns

LikedLists == UNION {[1..n -> Isbns] : n \in LikedLengths}

(***************************************************************************)
(* softmax                                                                 *)
(***************************************************************************)
\* exp by its power series, summed until a term rounds to 0; exp of a negative
\* number as the reciprocal.
RECURSIVE ExpSeries(_, _, _)
ExpSeries(t, k, term) ==
    IF term = 0 THEN 0
    ELSE term + ExpSeries(t, k + 1, (term * t) \div (k * Scale))

ExpPos(t) == ExpSeries(t, 1, Scale)

Exp(t) == IF t >= 0 THEN ExpPos(t) ELSE (Scale * Scale) \div ExpPos(-t)

RECURSIVE MaxV(_)
MaxV(s) == IF Len(s) = 1 THEN s[1].v ELSE Max(Head(s).v, MaxV(Tail(s)))

SoftmaxNoSum(x) ==
    IF x = <<>> THEN <<>>
    ELSE [i \in 1..Len(x) |-> [k |-> x[i].k, v |-> Exp(x[i].v - MaxV(x))]]

SoftmaxSignFlipped(x) ==
    IF x = <<>> THEN <<>>
    ELSE LET max_x == MaxV(x)
             e_x == [i \in 1..Len(x) |-> [k |-> x[i].k, v |-> Exp(max_x - x[i].v)]]
             e_sum == SumV(e_x)
         IN [i \in 1..Len(x) |-> [k |-> e_x[i].k, v |-> (e_x[i].v * Scale) \div e_sum]]

Softmax(x) ==
    IF x = <<>> THEN <<>>
    ELSE LET max_x == MaxV(x)
             e_x == [i \in 1..Len(x) |-> [k |-> x[i].k, v |-> Exp(x[i].v - max_x)]]
             e_sum == SumV(e_x)
         IN [i \in 1..Len(x) |-> [k |-> e_x[i].k, v |-> (e_x[i].v * Scale) \div e_sum]]

(***************************************************************************)
(* Vector encoder (lines 31-47)                                            *)
(***************************************************************************)
NewUserVector(liked, df) ==
    [i \in 1..Len(df.columns) |->
        [k |-> df.columns[i], v |-> IF df.columns[i] \in Range(liked) THEN 1 ELSE 0]]

FoundAnyLiked(liked, df) == liked /= <<>>

FoundLikedBooksInMatrix(liked, df) == \E j \in 1..Len(liked) : liked[j] \in Range(df.columns)

(***************************************************************************)
(* Neighbour selector (lines 49-60)                                        *)
(***************************************************************************)
FillnaInplace(df, liked) ==
    [df EXCEPT !.values =
        [u \in DOMAIN df.values |->
            [c \in Range(df.columns) |->
                IF c \in DOMAIN df.values[u] THEN df.values[u][c] ELSE 0]]]

AddNewUserRow(df, liked) ==
    [df EXCEPT !.index = IF 0 \in Range(df.index) THEN df.index ELSE Append(df.index, 0),
               !.values = [u \in DOMAIN df.values \cup {0} |->
                              IF u = 0
                              THEN [c \in Range(df.columns) |-> IF c \in Range(liked) THEN 1 ELSE 0]
                              ELSE df.values[u]]]

FrameAfterCall(df, liked) == df

UserMatrixForSimilarity(df) ==
    [i \in 1..Len(df.index) |->
        [j \in 1..Len(df.columns) |->
            IF df.columns[j] \in DOMAIN df.values[df.index[i]]
            THEN df.values[df.index[i]][df.columns[j]] ELSE 0]]

\* dot(x, y) / (|x| |y|), 0 for a zero vector, rounded once.
RECURSIVE Dot(_, _)
Dot(x, y) == IF x = <<>> THEN 0 ELSE Head(x) * Head(y) + Dot(Tail(x), Tail(y))

CosineSimilarity(x, y) ==
    LET d == Dot(x, y)
        nx == Dot(x, x)
        ny == Dot(y, y)
    IN IF nx = 0 \/ ny = 0 THEN 0
       ELSE LET q == ISqrt((d * d * Scale * Scale) \div (nx * ny))
            IN IF d >= 0 THEN q ELSE -q

SimilaritySeries(liked, df) ==
    LET new_user_np == [j \in 1..Len(df.columns) |-> NewUserVector(liked, df)[j].v]
        m == UserMatrixForSimilarity(df)
    IN [i \in 1..Len(df.index) |-> [k |-> df.index[i], v |-> CosineSimilarity(new_user_np, m[i])]]

NonNegativeFilter(s) == SelectSeq(s, LAMBDA e : e.v >= 0)

PositiveFilter(s) == SelectSeq(s, LAMBDA e : e.v > 0)

\* sort_values(ascending=False): descending, equal values keep their index order.
RECURSIVE InsertDescending(_, _)
InsertDescending(t, e) ==
    IF t = <<>> THEN <<e>>
    ELSE IF Head(t).v >= e.v THEN <<Head(t)>> \o InsertDescending(Tail(t), e)
    ELSE <<e>> \o t

RECURSIVE SortFrom(_, _)
SortFrom(s, acc) ==
    IF s = <<>> THEN acc ELSE SortFrom(Tail(s), InsertDescending(acc, Head(s)))

SortValuesUnsorted(s) == s

SortValuesDescending(s) == SortFrom(s, <<>>)

TakeAll(s, n) == s

TakeHead(s, n) ==
    IF n >= 0 THEN SubSeq(s, 1, Min(n, Len(s))) ELSE SubSeq(s, 1, Max(Len(s) + n, 0))

TopSimilarUsersWithSim(liked, df, top_n_similar_users) ==
    TakeHead(SortValuesDescending(PositiveFilter(SimilaritySeries(liked, df))), top_n_similar_users)

(***************************************************************************)
(* Score aggregator and ranker (lines 63-117)                              *)
(***************************************************************************)
\* mean(axis=1) skips NaN; a row with no rating has no mean (NaN).
UserMeanRatings(df) ==
    [u \in {w \in DOMAIN df.values : DOMAIN df.values[w] /= {}} |->
        (SetSum(df.values[u], DOMAIN df.values[u]) * Scale) \div Cardinality(DOMAIN df.values[u])]

AllColumns(df, liked) == SortedSeq(Range(df.columns))

PotentialRecommendationBooksUnliked(df, liked) == SortedSeq(Range(df.columns) \ Range(liked))

BooksRatedByAnySimilarUserUnliked(df, liked, top) ==
    SelectSeq(PotentialRecommendationBooksUnliked(df, liked),
              LAMBDA b : \E i \in 1..Len(top) : b \in DOMAIN df.values[top[i].k])

SumAbsSimilarities(top) == SumV([i \in 1..Len(top) |-> [k |-> top[i].k, v |-> Abs(top[i].v)]])

RECURSIVE WeightedDeviationSum(_, _, _, _, _)
WeightedDeviationSum(df, top, user_mean_ratings, book_isbn, acc) ==
    IF top = <<>> THEN acc
    ELSE LET user_id == Head(top).k
             similarity_score == Head(top).v
         IN IF book_isbn \in DOMAIN df.values[user_id]
            THEN LET user_rating == df.values[user_id][book_isbn] * Scale
                     user_mean == user_mean_ratings[user_id]
                     deviation == user_rating - user_mean
                 IN WeightedDeviationSum(df, Tail(top), user_mean_ratings, book_isbn,
                                         acc + similarity_score * deviation)
            ELSE WeightedDeviationSum(df, Tail(top), user_mean_ratings, book_isbn, acc)

RECURSIVE WeightedDeviationSumMissingAsZero(_, _, _, _, _)
WeightedDeviationSumMissingAsZero(df, top, user_mean_ratings, book_isbn, acc) ==
    IF top = <<>> THEN acc
    ELSE LET user_id == Head(top).k
             user_rating == IF book_isbn \in DOMAIN df.values[user_id]
                            THEN df.values[user_id][book_isbn] * Scale ELSE 0
             deviation == user_rating - user_mean_ratings[user_id]
         IN WeightedDeviationSumMissingAsZero(df, Tail(top), user_mean_ratings, book_isbn,
                                              acc + Head(top).v * deviation)

PredictedScoreMissingAsZero(df, top, user_mean_ratings, sum_abs_similarities, book_isbn) ==
    WeightedDeviationSumMissingAsZero(df, top, user_mean_ratings, book_isbn, 0)
        \div sum_abs_similarities

PredictedScore(df, top, user_mean_ratings, sum_abs_similarities, book_isbn) ==
    WeightedDeviationSum(df, top, user_mean_ratings, book_isbn, 0) \div sum_abs_similarities

PredictedBookScores(df, books, top, user_mean_ratings, sum_abs_similarities) ==
    [i \in 1..Len(books) |->
        [k |-> books[i],
         v |-> PredictedScore(df, top, user_mean_ratings, sum_abs_similarities, books[i])]]

RecommendationsList(series, meta) ==
    [i \in 1..Len(series) |->
        LET isbn == series[i].k
            book_details == IF isbn \in DOMAIN meta THEN meta[isbn] ELSE <<>>
        IN [title |-> IF "Book-Title" \in DOMAIN book_details
                      THEN book_details["Book-Title"] ELSE "Unknown Title",
            author |-> IF "Book-Author" \in DOMAIN book_details
                       THEN book_details["Book-Author"] ELSE "Unknown Author",
            isbn |-> isbn,
            score |-> series[i].v]]

\* The returned list, the return statement taken, and the locals the list was computed from.
Return(list, path, top, predicted) ==
    [recommendations |-> list, path |-> path, top |-> top, predicted |-> predicted]

GenerateBookRecommendations(liked_isbns, df, meta, top_n_similar_users, num_recs) ==
    IF liked_isbns = <<>> THEN Return(<<>>, "no_liked", <<>>, <<>>)
    ELSE IF ~FoundLikedBooksInMatrix(liked_isbns, df) THEN Return(<<>>, "none_in_matrix", <<>>, <<>>)
    ELSE LET top == TopSimilarUsersWithSim(liked_isbns, df, top_n_similar_users)
         IN IF top = <<>> THEN Return(<<>>, "no_similar_users", top, <<>>)
            ELSE LET user_mean_ratings == UserMeanRatings(df)
                     books == BooksRatedByAnySimilarUserUnliked(df, liked_isbns, top)
                     sum_abs_similarities == SumAbsSimilarities(top)
                 IN IF books = <<>> THEN Return(<<>>, "no_new_books", top, <<>>)
                    ELSE IF sum_abs_similarities = 0 THEN Return(<<>>, "zero_weight", top, <<>>)
                    ELSE LET predicted == PredictedBookScores(df, books, top, user_mean_ratings,
                                                              sum_abs_similarities)
                             book_scores == PositiveFilter(predicted)
                         IN IF book_scores = <<>>
                            THEN Return(<<>>, "no_positive_score", top, predicted)
                            ELSE LET softmax_scores == Softmax(book_scores)
                                     series == TakeHead(SortValuesDescending(softmax_scores),
                                                        num_recs)
                                 IN Return(RecommendationsList(series, meta), "ok", top, predicted)

(***************************************************************************)
(* The program: the data loaded once, then any number of calls.           *)
(***************************************************************************)
VARIABLES user_item_matrix_df, book_metadata_dict, matrix_at_load, call, liked_isbns,
          recommendations, path, top_similar_users_with_sim, predicted_book_scores

vars == <<user_item_matrix_df, book_metadata_dict, matrix_at_load, call, liked_isbns,
          recommendations, path, top_similar_users_with_sim, predicted_book_scores>>

Calls == [liked : LikedLists, top_n : 1..MaxTopN, num_recs : 0..MaxNumRecs]

Init ==
    /\ user_item_matrix_df \in {Frame(v) : v \in RatingTables}
    /\ book_metadata_dict = MetadataTable
    /\ matrix_at_load = user_item_matrix_df
    /\ call \in Calls
    /\ liked_isbns = call.liked
    /\ recommendations = <<>>
    /\ path = "start"
    /\ top_similar_users_with_sim = <<>>
    /\ predicted_book_scores = <<>>

\* A request is pending from the moment the caller has fixed the arguments until the
\* call returns; "repeat" is a pending request with the arguments of the call before it,
\* whose list the caller still holds.
Pending == path \in {"start", "repeat"}

Returned == ~Pending

Recommend ==
    /\ Pending
    /\ \E r \in {GenerateBookRecommendations(liked_isbns, user_item_matrix_df, book_metadata_dict,
                                             call.top_n, call.num_recs)} :
          /\ recommendations' = r.recommendations
          /\ path' = r.path
          /\ top_similar_users_with_sim' = r.top
          /\ predicted_book_scores' = r.predicted
          /\ user_item_matrix_df' = IF r.path \in {"no_liked", "none_in_matrix"}
                                    THEN user_item_matrix_df
                                    ELSE FrameAfterCall(user_item_matrix_df, liked_isbns)
    /\ UNCHANGED <<book_metadata_dict, matrix_at_load, call, liked_isbns>>

NewRequest(c) ==
    /\ Returned
    /\ c /= call
    /\ call' = c
    /\ liked_isbns' = c.liked
    /\ recommendations' = <<>>
    /\ path' = "start"
    /\ top_similar_users_with_sim' = <<>>
    /\ predicted_book_scores' = <<>>
    /\ UNCHANGED <<user_item_matrix_df, book_metadata_dict, matrix_at_load>>

RepeatRequest ==
    /\ Returned
    /\ path' = "repeat"
    /\ UNCHANGED <<user_item_matrix_df, book_metadata_dict, matrix_at_load, call, liked_isbns,
                   recommendations, top_similar_users_with_sim, predicted_book_scores>>

Next ==
    \/ Recommend
    \/ RepeatRequest
    \/ \E liked \in LikedLists : NewRequest([call EXCEPT !.liked = liked])
    \/ \E top_n \in 1..MaxTopN : NewRequest([call EXCEPT !.top_n = top_n])
    \/ \E num_recs \in 0..MaxNumRecs : NewRequest([call EXCEPT !.num_recs = num_recs])

Spec == Init /\ [][Next]_vars

(***************************************************************************)
(* Vocabulary of the properties, computed from the state by set-based     *)
(* definitions that do not use the operators of the pipeline.             *)
(***************************************************************************)
Df == user_item_matrix_df

ColumnSet == Range(Df.columns)

LikedInMatrix == Range(liked_isbns) \cap ColumnSet

Rated(u) == DOMAIN Df.values[u]

RecIsbns == {recommendations[i].isbn : i \in 1..Len(recommendations)}

TopUsers == {top_similar_users_with_sim[i].k : i \in 1..Len(top_similar_users_with_sim)}

SimOf(u) == (CHOOSE e \in Range(top_similar_users_with_sim) : e.k = u).v

PredictedOf(b) == (CHOOSE e \in Range(predicted_book_scores) : e.k = b).v

PositiveCandidates == {e.k : e \in {x \in Range(predicted_book_scores) : x.v > 0}}

\* The cosine of user u's row (missing = 0) against the 0/1 vector of the liked columns
\* is LikedDot(u) / sqrt(NormProduct(u)); a similarity q is its floor in units of 1/Scale.
LikedDot(u) ==
    SetSum([c \in LikedInMatrix |-> IF c \in Rated(u) THEN Df.values[u][c] ELSE 0], LikedInMatrix)

NormProduct(u) ==
    Cardinality(LikedInMatrix) * SetSum([c \in Rated(u) |-> Df.values[u][c] * Df.values[u][c]], Rated(u))

SimAtMost(u, q) ==
    \/ NormProduct(u) = 0
    \/ LikedDot(u) * LikedDot(u) * Scale * Scale < (q + 1) * (q + 1) * NormProduct(u)

IsCosineOf(q, u) ==
    /\ q >= 0
    /\ SimAtMost(u, q)
    /\ q > 0 => ~SimAtMost(u, q - 1)

MeanOf(u) == (SetSum(Df.values[u], Rated(u)) * Scale) \div Cardinality(Rated(u))

\* C1: with an empty liked list, or one holding no column of the matrix, the call
\* returns the empty list through one of the two early returns of the encoder.
C1_EmptyWhenNoLikedInMatrix ==
    (Returned /\ LikedInMatrix = {}) =>
        /\ recommendations = <<>>
        /\ path \in {"no_liked", "none_in_matrix"}
        /\ top_similar_users_with_sim = <<>>

C1_Witness ==
    /\ Returned
    /\ liked_isbns /= <<>>
    /\ LikedInMatrix = {}
    /\ recommendations = <<>>
    /\ \A u \in DOMAIN Df.values : Rated(u) /= {}

\* C2: no returned record carries an isbn of the liked list, whether or not that
\* isbn is a column and however often it is listed.
C2_NoLikedInResult == \A i \in 1..Len(recommendations) : recommendations[i].isbn \notin Range(liked_isbns)

C2_Witness ==
    /\ path = "ok"
    /\ Len(liked_isbns) = 2
    /\ liked_isbns[1] \in UnknownIsbns
    /\ liked_isbns[2] \in ColumnSet
    /\ \E u \in TopUsers : liked_isbns[2] \in Rated(u) /\ Df.values[u][liked_isbns[2]] * Scale > MeanOf(u)

\* C3: with num_recs >= 0 the list is no longer than num_recs nor than the number of
\* candidates with a strictly positive predicted score, and has exactly that number
\* of records when it is below num_recs.
C3_LengthCap ==
    (Returned /\ call.num_recs >= 0) =>
        /\ Len(recommendations) <= call.num_recs
        /\ Len(recommendations) <= Cardinality(PositiveCandidates)
        /\ Cardinality(PositiveCandidates) < call.num_recs
              => Len(recommendations) = Cardinality(PositiveCandidates)
        /\ Cardinality(RecIsbns) = Len(recommendations)

C3_Witness ==
    /\ path = "ok"
    /\ call.num_recs = 1
    /\ Cardinality(PositiveCandidates) = 2
    /\ Len(recommendations) = 1

\* C4 as stated: every returned score is strictly between 0 and 1.
C4_ScoreInOpenInterval ==
    \A i \in 1..Len(recommendations) : recommendations[i].score > 0 /\ recommendations[i].score < Scale

\* C4 amended: every returned score is strictly positive and at most 1, and it is 1
\* exactly when a single candidate survives the positive-score filter.
C4_ScoreInHalfOpenInterval ==
    \A i \in 1..Len(recommendations) :
        /\ recommendations[i].score > 0
        /\ recommendations[i].score <= Scale
        /\ recommendations[i].score = Scale <=> Cardinality(PositiveCandidates) = 1

C4_Witness ==
    /\ path = "ok"
    /\ Cardinality(PositiveCandidates) = 1
    /\ Len(recommendations) = 1
    /\ recommendations[1].score = Scale

\* C5: the neighbour set has at most top_n_similar_users members, each with its
\* cosine similarity, which is strictly positive; it is in non-increasing order of
\* similarity and no user outside it is strictly more similar than a member.
C5_NeighbourSet ==
    LET top == top_similar_users_with_sim
    IN /\ Len(top) <= call.top_n
       /\ Cardinality(TopUsers) = Len(top)
       /\ \A i \in 1..Len(top) :
             top[i].k \in DOMAIN Df.values /\ top[i].v > 0 /\ IsCosineOf(top[i].v, top[i].k)
       /\ \A i, j \in 1..Len(top) : i < j => top[i].v >= top[j].v
       /\ top /= <<>> =>
             \A u \in DOMAIN Df.values \ TopUsers : \A i \in 1..Len(top) : SimAtMost(u, top[i].v)

C5_Witness ==
    /\ Returned
    /\ call.top_n = 1
    /\ Len(top_similar_users_with_sim) = 1
    /\ \E u \in DOMAIN Df.values \ TopUsers :
          ~SimAtMost(u, 0) /\ SimAtMost(u, top_similar_users_with_sim[1].v - 1)
    /\ top_similar_users_with_sim[1].k = Df.index[2]

\* C6: the list is in non-increasing order of normalized score and of predicted
\* score, and no positive-score candidate outside it has a strictly greater
\* predicted score than a returned item.
C6_Ranked ==
    /\ \A i, j \in 1..Len(recommendations) :
          i < j => /\ recommendations[i].score >= recommendations[j].score
                   /\ PredictedOf(recommendations[i].isbn) >= PredictedOf(recommendations[j].isbn)
    /\ RecIsbns \subseteq PositiveCandidates
    /\ \A b \in PositiveCandidates \ RecIsbns : \A r \in RecIsbns : PredictedOf(b) <= PredictedOf(r)

C6_Witness ==
    /\ path = "ok"
    /\ Len(recommendations) = 2
    /\ recommendations[1].score > recommendations[2].score
    /\ PredictedOf(recommendations[1].isbn) > PredictedOf(recommendations[2].isbn)
    /\ recommendations[1].isbn > recommendations[2].isbn

\* C7: no step changes the rating matrix or the metadata table, and a call leaves
\* the liked list as it was passed, on every return path.
C7_InputsUntouched ==
    [][/\ user_item_matrix_df' = user_item_matrix_df
       /\ book_metadata_dict' = book_metadata_dict
       /\ Pending => (liked_isbns' = liked_isbns /\ liked_isbns' = call.liked)]_vars

C7_Witness ==
    /\ path = "ok"
    /\ \E u \in DOMAIN Df.values : Rated(u) /= ColumnSet
    /\ Df = matrix_at_load
    /\ Df.index = UserIndex
    /\ liked_isbns = call.liked

\* C8: every call returns what a call with the same arguments returns on the data
\* as loaded, whatever calls came before it, and a call repeated with the same
\* arguments returns the list of the call before it.
C8_SameInputsSameOutput ==
    /\ [](Returned =>
            recommendations = GenerateBookRecommendations(call.liked, matrix_at_load,
                                  book_metadata_dict, call.top_n, call.num_recs).recommendations)
    /\ [][path = "repeat" => recommendations' = recommendations]_vars

C8_Witness ==
    /\ path = "repeat"
    /\ Len(recommendations) = 2
    /\ \E u \in DOMAIN Df.values : Rated(u) /= ColumnSet

\* C9: in a matrix of strictly positive ratings the users selectable as neighbours
\* are exactly those who rated a liked column; when nobody rated one, no neighbour
\* is selected and the call returns the empty list.
AllRatingsPositive == \A u \in DOMAIN Df.values : \A c \in Rated(u) : Df.values[u][c] > 0

Eligible == {u \in DOMAIN Df.values : Rated(u) \cap LikedInMatrix /= {}}

C9_NeighboursRatedALikedItem ==
    (Returned /\ AllRatingsPositive /\ LikedInMatrix /= {}) =>
        /\ TopUsers \subseteq Eligible
        /\ Len(top_similar_users_with_sim) = Min(call.top_n, Cardinality(Eligible))
        /\ \A u \in DOMAIN Df.values : u \in Eligible <=> ~SimAtMost(u, 0)
        /\ Eligible = {} =>
              /\ top_similar_users_with_sim = <<>>
              /\ recommendations = <<>>
              /\ path = "no_similar_users"

C9_Witness ==
    /\ path = "no_similar_users"
    /\ AllRatingsPositive
    /\ LikedInMatrix /= {}
    /\ Eligible = {}
    /\ \A u \in DOMAIN Df.values : Rated(u) /= {}

\* C10: the candidates are the non-liked columns some selected neighbour rated; the
\* predicted score of each is the sum over the neighbours who rated it of
\* similarity x (rating - that neighbour's mean over its whole row), divided by the
\* sum of the absolute similarities of all selected neighbours; only candidates
\* with a strictly positive predicted score are returned.
Candidates == {b \in ColumnSet \ Range(liked_isbns) : \E u \in TopUsers : b \in Rated(u)}

RatersOf(b) == {u \in TopUsers : b \in Rated(u)}

ExpectedScore(b) ==
    SetSum([u \in RatersOf(b) |-> SimOf(u) * (Df.values[u][b] * Scale - MeanOf(u))], RatersOf(b))
        \div SetSum([u \in TopUsers |-> Abs(SimOf(u))], TopUsers)

C10_PredictedScore ==
    /\ path \in {"ok", "no_positive_score"} =>
          /\ {predicted_book_scores[i].k : i \in 1..Len(predicted_book_scores)} = Candidates
          /\ Len(predicted_book_scores) = Cardinality(Candidates)
    /\ \A i \in 1..Len(predicted_book_scores) :
          predicted_book_scores[i].v = ExpectedScore(predicted_book_scores[i].k)
    /\ \A b \in RecIsbns : b \in Candidates /\ ExpectedScore(b) > 0
    /\ path = "no_new_books" => Candidates = {}

C10_Witness ==
    /\ path = "ok"
    /\ Len(top_similar_users_with_sim) = 2
    /\ \E b \in RecIsbns : Cardinality(RatersOf(b)) = 1
    /\ \E b \in Candidates : ExpectedScore(b) < 0

====
